---- MODULE Spec2Model ----
(***************************************************************************)
(* RePoE gems.py: the recursive factoring of per-level gem records into a  *)
(* static document (_handle_dict / _handle_list / _handle_primitives) and  *)
(* its caller GemConverter.convert.                                        *)
(*                                                                         *)
(* Python values are tagged records [kind, val]:                           *)
(*   None    -> [kind |-> "null"]   (also the "no static" return value:    *)
(*                                   Python has one None for both)        *)
(*   int     -> [kind |-> "int",  val |-> i]                               *)
(*   list    -> [kind |-> "list", val |-> <<...>>]                         *)
(*   dict    -> [kind |-> "dict", val |-> [Keys -> value or Absent]]       *)
(* Absent marks a key that the dict does not hold.  A dict iterates its    *)
(* keys in KeyOrder (the insertion order of the loader).                   *)
(*                                                                         *)
(* The functions mutate per_level in place and may raise midway.  Each     *)
(* operator returns [static, cleared, pl, err]: the two returned values,   *)
(* the per_level values as the call left them, and whether it raised; a    *)
(* caller writes pl back into its own records before it goes on or         *)
(* propagates the exception, so a partial mutation stays visible.          *)
(* The representative is the first record, as in GemConverter.convert; a   *)
(* call reads representative[k] before the nested call for k mutates it.   *)
(***************************************************************************)
EXTENDS Integers, Sequences, FiniteSets, TLC

\* ---- bounds of the model ------------------------------------------------
MaxInt == 2
MaxLen == 2
NumLevels == 2
MaxLeaves == 2

\* ---- the value model ----------------------------------------------------
KeyOrder == <<"a", "b">>
Keys == {KeyOrder[i] : i \in 1..Len(KeyOrder)}

Null == [kind |-> "null", val |-> 0]
Absent == [kind |-> "absent", val |-> 0]
Num(i) == [kind |-> "int", val |-> i]
List(s) == [kind |-> "list", val |-> s]
Dict(f) == [kind |-> "dict", val |-> f]
EmptyDict == Dict([k \in Keys |-> Absent])

IsNone(x) == x.kind = "null"
IsDict(x) == x.kind = "dict"
IsList(x) == x.kind = "list"
HasKey(d, k) == d.val[k].kind # "absent"
KeysOf(d) == {k \in Keys : HasKey(d, k)}

\* Python ==: deep value equality, never an error between these kinds
PyEq(x, y) == x.kind = y.kind /\ x.val = y.val

\* `k in pl` for a string key k
KeyIn(k, pl) ==
    CASE pl.kind = "dict" -> IF HasKey(pl, k) THEN "yes" ELSE "no"
      [] pl.kind = "list" -> "no"
      [] OTHER -> "TypeError"

\* len(pl)
PyLen(pl) ==
    CASE pl.kind = "dict" -> Cardinality(KeysOf(pl))
      [] pl.kind = "list" -> Len(pl.val)
      [] OTHER -> -1

Idx(s) == 1..Len(s)

\* the child of x under key k / at index i, Absent where x has none
ChildK(x, k) == IF IsDict(x) THEN x.val[k] ELSE Absent
ChildI(x, i) == IF IsList(x) /\ i \in Idx(x.val) THEN x.val[i] ELSE Absent
KidsK(vals, k) == [n \in Idx(vals) |-> ChildK(vals[n], k)]
KidsI(vals, i) == [n \in Idx(vals) |-> ChildI(vals[n], i)]

\* ---- _handle_primitives --------------------------------------------------
Result(st, cl, pl, e) == [static |-> st, cleared |-> cl, pl |-> pl, err |-> e]

\* a slip: only the first variant is compared
_handle_primitives_first_only(representative, per_level) ==
    IF Len(per_level) >= 1 /\ ~PyEq(per_level[1], representative)
    THEN Result(Null, FALSE, per_level, FALSE)
    ELSE Result(representative, TRUE, per_level, FALSE)

_handle_primitives(representative, per_level) ==
    IF \E n \in Idx(per_level) : ~PyEq(per_level[n], representative)
    THEN Result(Null, FALSE, per_level, FALSE)
    ELSE Result(representative, TRUE, per_level, FALSE)

\* ---- the mutation loops --------------------------------------------------
\* a slip: the deletion loop left out
DelClearedKeys_none(per_level, cleared_keys) == per_level

\* for k in cleared_keys: for pl in per_level: del pl[k]
DelClearedKeys(per_level, cleared_keys) ==
    [n \in Idx(per_level) |->
        IF cleared_keys = {} THEN per_level[n]
        ELSE Dict([k \in Keys |-> IF k \in cleared_keys THEN Absent
                                  ELSE per_level[n].val[k]])]

\* a slip: the clearing loop left out
NullClearedIs_none(per_level, cleared_is) == per_level

\* a slip: del pl[i] as for a mapping, the slot removed
RECURSIVE DropSlots(_, _, _)
DropSlots(s, i, cleared_is) ==
    IF i > Len(s) THEN <<>>
    ELSE (IF i \in cleared_is THEN <<>> ELSE <<s[i]>>)
            \o DropSlots(s, i + 1, cleared_is)
NullClearedIs_del(per_level, cleared_is) ==
    [n \in Idx(per_level) |->
        IF cleared_is = {} THEN per_level[n]
        ELSE List(DropSlots(per_level[n].val, 1, cleared_is))]

\* for i in cleared_is: for pl in per_level: pl[i] = None
NullClearedIs(per_level, cleared_is) ==
    [n \in Idx(per_level) |->
        IF cleared_is = {} THEN per_level[n]
        ELSE List([i \in Idx(per_level[n].val) |->
                    IF i \in cleared_is THEN Null ELSE per_level[n].val[i]])]

\* static[k] = static_value, allocating static lazily
PutKey(static, k, static_value) ==
    IF IsNone(static_value) THEN static
    ELSE Dict([(IF IsNone(static) THEN EmptyDict ELSE static).val
                  EXCEPT ![k] = static_value])

\* a slip: static = [] and static.append(static_value), no None padding
PutIndex_append(static, i, static_value, representative) ==
    IF IsNone(static_value) THEN static
    ELSE List((IF IsNone(static) THEN <<>> ELSE static.val) \o <<static_value>>)

\* static[i] = static_value, allocating [None] * len(representative) lazily
PutIndex(static, i, static_value, representative) ==
    IF IsNone(static_value) THEN static
    ELSE List([(IF IsNone(static)
                THEN [j \in Idx(representative.val) |-> Null]
                ELSE static.val) EXCEPT ![i] = static_value])

\* the first variant, in order, where `k not in pl` does not answer False
FirstNotIn(k, per_level) ==
    LET bad == {n \in Idx(per_level) : KeyIn(k, per_level[n]) # "yes"}
    IN IF bad = {} THEN 0 ELSE CHOOSE n \in bad : \A m \in bad : n <= m

\* a slip: None is not let through, len(pl or []) is compared
FirstLenStop_none_too(representative, per_level) ==
    LET bad == {n \in Idx(per_level) :
                    PyLen(per_level[n]) # Len(representative.val)}
    IN IF bad = {} THEN 0 ELSE CHOOSE n \in bad : \A m \in bad : n <= m

\* the first variant, in order, where the edge-case loop of _handle_list ends
FirstLenStop(representative, per_level) ==
    LET bad == {n \in Idx(per_level) : ~IsNone(per_level[n])
                    /\ PyLen(per_level[n]) # Len(representative.val)}
    IN IF bad = {} THEN 0 ELSE CHOOSE n \in bad : \A m \in bad : n <= m

RECURSIVE Factor(_, _), _handle_dict(_, _), _handle_list(_, _)
RECURSIVE DictScan(_, _, _), ListScan(_, _, _)

\* the isinstance dispatch of both loops
Factor(v, per_level_values) ==
    IF IsDict(v) THEN _handle_dict(v, per_level_values)
    ELSE IF IsList(v) THEN _handle_list(v, per_level_values)
    ELSE _handle_primitives(v, per_level_values)

\* ---- _handle_dict --------------------------------------------------------
\* acc = [static, cleared, marked, pl, err]; i is the position in KeyOrder
DictScan(representative, i, acc) ==
    IF i > Len(KeyOrder) THEN acc
    ELSE LET k == KeyOrder[i] IN
      IF ~HasKey(representative, k) THEN DictScan(representative, i + 1, acc)
      ELSE LET n0 == FirstNotIn(k, acc.pl) IN
        IF n0 # 0
        THEN IF KeyIn(k, acc.pl[n0]) = "no"
             THEN DictScan(representative, i + 1, [acc EXCEPT !.cleared = FALSE])
             ELSE [acc EXCEPT !.err = TRUE]
        ELSE LET per_level_values == [n \in Idx(acc.pl) |-> acc.pl[n].val[k]]
                 r == Factor(representative.val[k], per_level_values)
                 pl1 == [n \in Idx(acc.pl) |->
                            Dict([acc.pl[n].val EXCEPT ![k] = r.pl[n]])]
             IN IF r.err THEN [acc EXCEPT !.pl = pl1, !.err = TRUE]
                ELSE DictScan(representative, i + 1,
                        [static |-> PutKey(acc.static, k, r.static),
                         cleared |-> acc.cleared /\ r.cleared,
                         marked |-> IF r.cleared THEN acc.marked \cup {k}
                                    ELSE acc.marked,
                         pl |-> pl1,
                         err |-> FALSE])

_handle_dict(representative, per_level) ==
    LET s == DictScan(representative, 1,
                [static |-> Null, cleared |-> TRUE, marked |-> {},
                 pl |-> per_level, err |-> FALSE])
    IN IF s.err THEN Result(Null, FALSE, s.pl, TRUE)
       ELSE Result(s.static, s.cleared, DelClearedKeys(s.pl, s.marked), FALSE)

\* ---- _handle_list --------------------------------------------------------
ListScan(representative, i, acc) ==
    IF i > Len(representative.val) THEN acc
    ELSE IF \E n \in Idx(acc.pl) : ~IsList(acc.pl[n])
    THEN [acc EXCEPT !.err = TRUE]
    ELSE LET per_level_values == [n \in Idx(acc.pl) |-> acc.pl[n].val[i]]
             r == Factor(representative.val[i], per_level_values)
             pl1 == [n \in Idx(acc.pl) |->
                        List([acc.pl[n].val EXCEPT ![i] = r.pl[n]])]
         IN IF r.err THEN [acc EXCEPT !.pl = pl1, !.err = TRUE]
            ELSE ListScan(representative, i + 1,
                    [static |-> PutIndex(acc.static, i, r.static, representative),
                     cleared |-> acc.cleared /\ r.cleared,
                     marked |-> IF r.cleared THEN acc.marked \cup {i}
                                ELSE acc.marked,
                     pl |-> pl1,
                     err |-> FALSE])

_handle_list(representative, per_level) ==
    LET stop == FirstLenStop(representative, per_level)
        all_none == \A n \in Idx(per_level) : IsNone(per_level[n])
        any_none == \E n \in Idx(per_level) : IsNone(per_level[n])
    IN IF stop # 0
       THEN \* len(pl) of an int raises TypeError, another length returns
            IF per_level[stop].kind = "int"
            THEN Result(Null, FALSE, per_level, TRUE)
            ELSE Result(Null, FALSE, per_level, FALSE)
       ELSE IF all_none THEN Result(Null, TRUE, per_level, FALSE)
       ELSE IF any_none THEN Result(Null, FALSE, per_level, FALSE)
       ELSE IF Len(representative.val) = 0
            THEN Result(List(<<>>), TRUE, per_level, FALSE)
       ELSE LET s == ListScan(representative, 1,
                        [static |-> Null, cleared |-> TRUE, marked |-> {},
                         pl |-> per_level, err |-> FALSE])
            IN IF s.err THEN Result(Null, FALSE, s.pl, TRUE)
               ELSE Result(s.static, s.cleared,
                           NullClearedIs(s.pl, s.marked), FALSE)

\* ---- the same call, the representative held by reference -----------------
\* GemConverter.convert passes gepls_dict[gepls[0]["Level"]], which is also
\* the first of gepls_dict.values(): representative IS per_level[0], and
\* so is every nested representative v = representative[k], the first of
\* per_level_values.  Here the representative is read from the live first
\* variant whenever the code reads it, and every read and write is logged:
\*   [ev |-> "read",  call, at, clean]  a scan step of the call at path
\*                                      `call` reads the values at path `at`;
\*                                      clean: they equal the values `pre`
\*                                      that were there before the top call
\*   [ev |-> "write", call, at]         the call deletes or nulls `at`
\*   [ev |-> "alias", call, at]         the returned static holds the mutable
\*                                      object at `at` itself
Event(ev, call, at, clean) ==
    [ev |-> ev, call |-> call, at |-> at, clean |-> clean]
RefResult(st, cl, pl, e, lg) ==
    [static |-> st, cleared |-> cl, pl |-> pl, err |-> e, log |-> lg]

\* representative: the same object as per_level[0]
LiveRep(per_level) == per_level[1]

\* cleared_keys / cleared_is in the order they were appended
MarkedKeys(marked) == SelectSeq(KeyOrder, LAMBDA k : k \in marked)
MarkedIndices(marked, n) == SelectSeq([i \in 1..n |-> i], LAMBDA i : i \in marked)

\* the events of the two mutation loops
KeyWrites(call, marked) ==
    [j \in Idx(MarkedKeys(marked)) |->
        Event("write", call, Append(call, MarkedKeys(marked)[j]), TRUE)]
IndexWrites(call, marked, n) ==
    [j \in Idx(MarkedIndices(marked, n)) |->
        Event("write", call, Append(call, ToString(MarkedIndices(marked, n)[j])),
              TRUE)]

\* pl != representative for each pl; return representative, the object
_handle_primitives_ref(per_level, pre, call) ==
    LET r == _handle_primitives(LiveRep(per_level), per_level)
    IN RefResult(r.static, r.cleared, r.pl, r.err,
            <<Event("read", call, call, per_level = pre)>>
            \o (IF IsDict(r.static) \/ IsList(r.static)
                THEN <<Event("alias", call, call, TRUE)>> ELSE <<>>))

\* a slip: a fully redundant child is stored as the representative's child
\* itself, saving the copy
StaticValue_rep(r) == IF r.cleared THEN LiveRep(r.pl) ELSE r.static

\* static_value of `static_value, cleared_value = _handle_...(v, ...)`
StaticValue(r) == r.static

RECURSIVE FactorRef(_, _, _), _handle_dict_ref(_, _, _), _handle_list_ref(_, _, _)
RECURSIVE DictScanRef(_, _, _, _), ListScanRef(_, _, _, _)

FactorRef(per_level_values, pre, call) ==
    LET v == LiveRep(per_level_values)
    IN IF IsDict(v) THEN _handle_dict_ref(per_level_values, pre, call)
       ELSE IF IsList(v) THEN _handle_list_ref(per_level_values, pre, call)
       ELSE _handle_primitives_ref(per_level_values, pre, call)

\* what a pass of the loop of _handle_dict does with the result r of the
\* nested call for key k: static[k] = static_value, cleared_keys.append(k)
DictMergeRef(acc, k, r, seen) ==
    LET pl1 == [n \in Idx(acc.pl) |->
                   Dict([acc.pl[n].val EXCEPT ![k] = r.pl[n]])]
    IN IF r.err
       THEN [acc EXCEPT !.pl = pl1, !.err = TRUE,
                        !.log = Append(@, seen) \o r.log]
       ELSE [static |-> PutKey(acc.static, k, StaticValue(r)),
             cleared |-> acc.cleared /\ r.cleared,
             marked |-> IF r.cleared THEN acc.marked \cup {k} ELSE acc.marked,
             pl |-> pl1,
             err |-> FALSE,
             log |-> Append(acc.log, seen) \o r.log]

\* what a pass does where `k not in pl` stops the inner loop at variant n0
DictSkipRef(acc, k, n0, seen) ==
    IF KeyIn(k, acc.pl[n0]) = "no"
    THEN [acc EXCEPT !.cleared = FALSE, !.log = Append(@, seen)]
    ELSE [acc EXCEPT !.err = TRUE, !.log = Append(@, seen)]

\* the read of a pass: each variant's kind and its value under key k
DictSeen(acc, k, pre, call) ==
    Event("read", call, Append(call, k),
        \A n \in Idx(acc.pl) :
            /\ acc.pl[n].kind = pre[n].kind
            /\ ChildK(acc.pl[n], k) = ChildK(pre[n], k))

\* one pass of the loop body of _handle_dict, for key k of the representative
DictStepRef(acc, k, pre, call) ==
    IF FirstNotIn(k, acc.pl) # 0
    THEN DictSkipRef(acc, k, FirstNotIn(k, acc.pl), DictSeen(acc, k, pre, call))
    ELSE DictMergeRef(acc, k,
            FactorRef([n \in Idx(acc.pl) |-> acc.pl[n].val[k]],
                      KidsK(pre, k), Append(call, k)),
            DictSeen(acc, k, pre, call))

\* a slip: a key is deleted as soon as it is found redundant, inside the scan
DictEager(a, k, call) ==
    IF ~a.err /\ k \in a.marked
    THEN [a EXCEPT !.pl = DelClearedKeys(@, {k}),
                   !.log = @ \o KeyWrites(call, {k})]
    ELSE a
DictScanRef_eager(i, acc, pre, call) ==
    IF i > Len(KeyOrder) \/ acc.err THEN acc
    ELSE IF ~HasKey(LiveRep(acc.pl), KeyOrder[i])
    THEN DictScanRef(i + 1, acc, pre, call)
    ELSE DictScanRef(i + 1,
            DictEager(DictStepRef(acc, KeyOrder[i], pre, call), KeyOrder[i],
                      call),
            pre, call)

\* for k, v in representative.items(): ...
DictScanRef(i, acc, pre, call) ==
    IF i > Len(KeyOrder) \/ acc.err THEN acc
    ELSE IF ~HasKey(LiveRep(acc.pl), KeyOrder[i])
    THEN DictScanRef(i + 1, acc, pre, call)
    ELSE DictScanRef(i + 1, DictStepRef(acc, KeyOrder[i], pre, call),
                     pre, call)

\* the deletion loop and the return, s being the state the scan ended in
DictFinishRef(s, call) ==
    IF s.err THEN RefResult(Null, FALSE, s.pl, TRUE, s.log)
    ELSE RefResult(s.static, s.cleared, DelClearedKeys(s.pl, s.marked),
                   FALSE, s.log \o KeyWrites(call, s.marked))

_handle_dict_ref(per_level, pre, call) ==
    DictFinishRef(
        DictScanRef(1,
            [static |-> Null, cleared |-> TRUE, marked |-> {},
             pl |-> per_level, err |-> FALSE, log |-> <<>>],
            pre, call),
        call)

\* what a pass of the loop of _handle_list does with the result r of the
\* nested call for index i; [None] * len(representative) reads the length
\* of the representative, after the nested call
ListMergeRef(acc, i, r, seen, pre, call) ==
    LET pl1 == [n \in Idx(acc.pl) |->
                   List([acc.pl[n].val EXCEPT ![i] = r.pl[n]])]
    IN IF r.err
       THEN [acc EXCEPT !.pl = pl1, !.err = TRUE,
                        !.log = Append(@, seen) \o r.log]
       ELSE [static |-> PutIndex(acc.static, i, StaticValue(r), LiveRep(pl1)),
             cleared |-> acc.cleared /\ r.cleared,
             marked |-> IF r.cleared THEN acc.marked \cup {i} ELSE acc.marked,
             pl |-> pl1,
             err |-> FALSE,
             log |-> Append(acc.log, seen) \o r.log
                     \o (IF IsNone(acc.static) /\ ~IsNone(r.static)
                         THEN <<Event("read", call, call,
                                   PyLen(LiveRep(pl1)) = PyLen(pre[1]))>>
                         ELSE <<>>)]

\* the read of a pass: each variant's kind and its value at index i
ListSeen(acc, i, pre, call) ==
    Event("read", call, Append(call, ToString(i)),
        \A n \in Idx(acc.pl) :
            /\ acc.pl[n].kind = pre[n].kind
            /\ ChildI(acc.pl[n], i) = ChildI(pre[n], i))

\* one pass of the loop body of _handle_list, for index i
ListStepRef(acc, i, pre, call) ==
    IF \E n \in Idx(acc.pl) : ~IsList(acc.pl[n])
    THEN [acc EXCEPT !.err = TRUE,
                     !.log = Append(@, ListSeen(acc, i, pre, call))]
    ELSE ListMergeRef(acc, i,
            FactorRef([n \in Idx(acc.pl) |-> acc.pl[n].val[i]],
                      KidsI(pre, i), Append(call, ToString(i))),
            ListSeen(acc, i, pre, call), pre, call)

\* for i, v in enumerate(representative): ...
ListScanRef(i, acc, pre, call) ==
    IF i > Len(LiveRep(acc.pl).val) \/ acc.err THEN acc
    ELSE ListScanRef(i + 1, ListStepRef(acc, i, pre, call), pre, call)

\* the clearing loop and the return, s being the state the scan ended in
ListFinishRef(s, call, n) ==
    IF s.err THEN RefResult(Null, FALSE, s.pl, TRUE, s.log)
    ELSE RefResult(s.static, s.cleared, NullClearedIs(s.pl, s.marked), FALSE,
                   s.log \o IndexWrites(call, s.marked, n))

\* the read of the edge-case loop: each variant's None-ness and length
EdgeSeen(per_level, pre, call) ==
    <<Event("read", call, call,
        \A n \in Idx(per_level) :
            /\ per_level[n].kind = pre[n].kind
            /\ PyLen(per_level[n]) = PyLen(pre[n]))>>

\* the edge cases of _handle_list: a length that differs (len of an int
\* raises TypeError), all None, any None, all empty
ListEdgeRef(per_level, stop, seen) ==
    IF stop # 0
    THEN RefResult(Null, FALSE, per_level, per_level[stop].kind = "int", seen)
    ELSE IF \A n \in Idx(per_level) : IsNone(per_level[n])
    THEN RefResult(Null, TRUE, per_level, FALSE, seen)
    ELSE IF \E n \in Idx(per_level) : IsNone(per_level[n])
    THEN RefResult(Null, FALSE, per_level, FALSE, seen)
    ELSE RefResult(List(<<>>), TRUE, per_level, FALSE, seen)

_handle_list_ref(per_level, pre, call) ==
    IF \/ FirstLenStop(LiveRep(per_level), per_level) # 0
       \/ \E n \in Idx(per_level) : IsNone(per_level[n])
       \/ Len(LiveRep(per_level).val) = 0
    THEN ListEdgeRef(per_level, FirstLenStop(LiveRep(per_level), per_level),
                     EdgeSeen(per_level, pre, call))
    ELSE ListFinishRef(
            ListScanRef(1,
                [static |-> Null, cleared |-> TRUE, marked |-> {},
                 pl |-> per_level, err |-> FALSE,
                 log |-> EdgeSeen(per_level, pre, call)],
                pre, call),
            call, Len(LiveRep(per_level).val))

\* ---- the inputs: per-level records as the loader hands them over --------
Leaves == {Null} \cup {Num(i) : i \in 1..MaxInt}
SeqsUpTo(S, n) == UNION {[1..m -> S] : m \in 0..n}
Lists == {List(s) : s \in SeqsUpTo(Leaves, MaxLen)}
Dicts == {Dict(f) : f \in [Keys -> Leaves \cup {Absent}]}
Inner == Leaves \cup Lists \cup Dicts

\* the number of scalar leaves a value holds
RECURSIVE SumSeq(_)
SumSeq(s) == IF s = <<>> THEN 0 ELSE Head(s) + SumSeq(Tail(s))
RECURSIVE LeafCount(_)
LeafCount(x) ==
    CASE x.kind = "absent" -> 0
      [] x.kind = "list" -> SumSeq([i \in Idx(x.val) |-> LeafCount(x.val[i])])
      [] x.kind = "dict" ->
            SumSeq([i \in Idx(KeyOrder) |-> LeafCount(x.val[KeyOrder[i]])])
      [] OTHER -> 1

Records == {r \in {Dict(f) : f \in [Keys -> Inner \cup {Absent}]} :
                LeafCount(r) <= MaxLeaves}
Groups == UNION {[1..n -> Records] : n \in 0..NumLevels}

\* per_level: the records, mutated in place; static, cleared: what the last
\* call of _handle_dict returned; obj_static: obj["static"]; orig and
\* compacted: the records as they were before the first and the second call;
\* representative: the value the last call was given as representative;
\* log: the reads and writes of the last call, in program order, where the
\* call was traced
VARIABLES phase, orig, compacted, per_level, static, cleared, obj_static,
          representative, log
vars == <<phase, orig, compacted, per_level, static, cleared, obj_static,
          representative, log>>

Init ==
    /\ phase = "loaded"
    /\ per_level \in Groups
    /\ orig = per_level
    /\ compacted = <<>>
    /\ static = Null
    /\ cleared = FALSE
    /\ obj_static = EmptyDict
    /\ representative = Null
    /\ log = <<>>

\* one call of _handle_dict by the converter, representative = first record
Run(from, ok, failed) ==
    /\ phase = from
    /\ IF Len(per_level) >= 1
       THEN LET r == _handle_dict(per_level[1], per_level)
            IN /\ per_level' = r.pl
               /\ static' = r.static
               /\ cleared' = r.cleared
               /\ obj_static' = IF r.err \/ IsNone(r.static) THEN EmptyDict
                                 ELSE r.static
               /\ phase' = IF r.err THEN failed ELSE ok
               /\ representative' = per_level[1]
       ELSE /\ obj_static' = EmptyDict
            /\ phase' = ok
            /\ UNCHANGED <<per_level, static, cleared, representative>>

\* GemConverter.convert: obj["static"] = {}, then the factoring of per_level
Convert ==
    /\ Run("loaded", "factored", "failed")
    /\ UNCHANGED <<orig, compacted, log>>

\* the same call once more, on the compacted records, the representative
\* recomputed as the first of them
Refactor ==
    /\ Run("factored", "refactored", "refailed")
    /\ compacted' = per_level
    /\ UNCHANGED <<orig, log>>

Next == Convert \/ Refactor

Spec == Init /\ [][Next]_vars

\* ---- _handle_list called on its own ---------------------------------------
\* the values a sequence call is given: sequences of leaves and mappings,
\* and None for a level that has no sequence
SeqVals == {l \in {List(s) : s \in SeqsUpTo(Leaves \cup Dicts, MaxLen)} :
                LeafCount(l) <= MaxLeaves}
SeqVariants == SeqVals \cup {Null}
SeqGroups == UNION {[1..n -> SeqVariants] : n \in 1..NumLevels}

\* the representative is the first variant where that is a sequence, as in
\* every call the converter makes; any sequence where the first variant is
\* None or is the only one
InitSeq ==
    /\ phase = "seq_loaded"
    /\ per_level \in SeqGroups
    /\ representative \in SeqVals
    /\ (Len(per_level) >= 2 /\ IsList(per_level[1])) =>
            representative = per_level[1]
    /\ orig = per_level
    /\ compacted = <<>>
    /\ static = Null
    /\ cleared = FALSE
    /\ obj_static = EmptyDict
    /\ log = <<>>

FactorSeq ==
    /\ phase = "seq_loaded"
    /\ LET r == _handle_list(representative, per_level)
       IN /\ per_level' = r.pl
          /\ static' = r.static
          /\ cleared' = r.cleared
          /\ phase' = IF r.err THEN "seq_failed" ELSE "seq_done"
    /\ UNCHANGED <<orig, compacted, obj_static, representative, log>>

NextSeq == FactorSeq

SpecSeq == InitSeq /\ [][NextSeq]_vars

\* ---- GemConverter.convert, the representative held by reference ----------
\* the records the converter factors: the call is made if len(gepls) >= 1
InitRef ==
    /\ phase = "ref_loaded"
    /\ per_level \in Groups
    /\ Len(per_level) >= 1
    /\ orig = per_level
    /\ compacted = <<>>
    /\ static = Null
    /\ cleared = FALSE
    /\ obj_static = EmptyDict
    /\ representative = Null
    /\ log = <<>>

\* static, _ = _handle_dict(representative, gepls_dict.values())
ConvertRef ==
    /\ phase = "ref_loaded"
    /\ LET r == _handle_dict_ref(per_level, per_level, <<>>)
       IN /\ per_level' = r.pl
          /\ static' = r.static
          /\ cleared' = r.cleared
          /\ obj_static' = IF r.err \/ IsNone(r.static) THEN EmptyDict
                            ELSE r.static
          /\ phase' = IF r.err THEN "ref_failed" ELSE "ref_factored"
          /\ representative' = per_level[1]
          /\ log' = r.log
    /\ UNCHANGED <<orig, compacted>>

NextRef == ConvertRef

SpecRef == InitRef /\ [][NextRef]_vars

\* ---- helpers of the properties -------------------------------------------
Levels == Idx(orig)
IsScalar(x) == x.kind \in {"null", "int"}
Gone(x) == x.kind \in {"absent", "null"}
AllEq(vals) == \A n \in Idx(vals) : PyEq(vals[n], vals[1])

\* the static document laid underneath a compacted variant: static supplies
\* the keys the variant lacks and the slots the variant holds as Null
RECURSIVE Overlay(_, _)
Overlay(s, v) ==
    IF Gone(s) THEN v
    ELSE IF Gone(v) THEN s
    ELSE IF IsDict(s) /\ IsDict(v)
    THEN Dict([k \in Keys |-> Overlay(s.val[k], v.val[k])])
    ELSE IF IsList(s) /\ IsList(v) /\ Len(s.val) = Len(v.val)
    THEN List([i \in Idx(v.val) |-> Overlay(s.val[i], v.val[i])])
    ELSE v

\* C1: after the factoring, laying the static document underneath each
\* compacted variant gives back the variant as it was before the call.
C1_RoundTrip ==
    phase = "factored" =>
        \A n \in Levels : Overlay(obj_static, per_level[n]) = orig[n]

\* C2: _handle_dict returns cleared = True exactly when every variant
\* deep-equals the representative.
C2_ClearedIffIdentical ==
    (phase = "factored" /\ Len(orig) >= 1) =>
        (cleared <=> \A n \in Levels : PyEq(orig[n], orig[1]))

\* C3: when all variants deep-equal the representative, the call returns
\* cleared = True, the static document deep-equals the representative and
\* every variant is left an empty mapping.
C3_TotalAgreement ==
    (phase = "factored" /\ Len(orig) >= 1
        /\ \A n \in Levels : PyEq(orig[n], orig[1])) =>
        /\ cleared
        /\ PyEq(obj_static, orig[1])
        /\ \A n \in Levels : per_level[n] = EmptyDict

\* s is what static holds at a path, v what a variant holds there
IsStaticLeaf(s) == s.kind = "int" \/ (IsList(s) /\ s.val = <<>>)

\* every path below s is absent or Null in v, interior paths included
RECURSIVE EveryPathGone(_, _)
EveryPathGone(s, v) ==
    /\ IsDict(s) => \A k \in KeysOf(s) :
            /\ Gone(ChildK(v, k))
            /\ EveryPathGone(s.val[k], ChildK(v, k))
    /\ IsList(s) => \A i \in Idx(s.val) : ~IsNone(s.val[i]) =>
            /\ Gone(ChildI(v, i))
            /\ EveryPathGone(s.val[i], ChildI(v, i))

\* every leaf path below s is absent or Null in v
RECURSIVE EveryLeafGone(_, _)
EveryLeafGone(s, v) ==
    /\ IsDict(s) => \A k \in KeysOf(s) :
            IF IsStaticLeaf(s.val[k]) THEN Gone(ChildK(v, k))
            ELSE EveryLeafGone(s.val[k], ChildK(v, k))
    /\ IsList(s) => \A i \in Idx(s.val) : ~IsNone(s.val[i]) =>
            IF IsStaticLeaf(s.val[i]) THEN Gone(ChildI(v, i))
            ELSE EveryLeafGone(s.val[i], ChildI(v, i))

\* C4 as stated: after the factoring, at every path present in the static
\* document every variant's value is absent or Null.
C4_EveryStaticPathGone ==
    phase = "factored" =>
        \A n \in Levels : EveryPathGone(static, per_level[n])

\* C4 amended: after the factoring, at every leaf path of the static
\* document (where static holds a scalar or an empty sequence) every
\* variant's value is absent or Null.
C4_EveryStaticLeafGone ==
    phase = "factored" =>
        \A n \in Levels : EveryLeafGone(static, per_level[n])

\* a leaf was pulled into static below a key that a variant still holds
C4_Witness ==
    /\ phase = "factored"
    /\ \E k \in Keys, n \in Levels :
          /\ ~Gone(ChildK(static, k))
          /\ ~IsStaticLeaf(ChildK(static, k))
          /\ ~Gone(ChildK(per_level[n], k))

\* the value at a path of mapping keys, Absent where the path does not lead
RECURSIVE Get(_, _)
Get(x, p) == IF p = <<>> THEN x ELSE Get(ChildK(x, Head(p)), Tail(p))
KeyPaths == UNION {[1..d -> Keys] : d \in 1..2}

\* C5: a mapping key, at any depth, that some variants hold and others lack
\* is after the factoring still held, with its value, by every variant
\* that held it, and the static document does not hold it.
C5_PresenceMismatchSticky ==
    phase = "factored" =>
        \A p \in KeyPaths :
            ((\E n \in Levels : Get(orig[n], p).kind # "absent")
              /\ (\E n \in Levels : Get(orig[n], p).kind = "absent")) =>
                /\ \A n \in Levels : Get(per_level[n], p) = Get(orig[n], p)
                /\ Get(obj_static, p).kind = "absent"

\* vals: the values the variants hold at one path.  Exactly one variant
\* differs from the rest, and only at one scalar leaf below this path.
OneOut(vals) ==
    \E d \in Idx(vals) :
        /\ \A n, m \in Idx(vals) \ {d} : PyEq(vals[n], vals[m])
        /\ \A n \in Idx(vals) \ {d} : ~PyEq(vals[n], vals[d])
SameShape(vals) ==
    \/ \A n \in Idx(vals) : IsScalar(vals[n])
    \/ \A n \in Idx(vals) : IsDict(vals[n]) /\ KeysOf(vals[n]) = KeysOf(vals[1])
    \/ \A n \in Idx(vals) : IsList(vals[n]) /\ Len(vals[n].val) = Len(vals[1].val)

RECURSIVE UniqueLeaf(_)
UniqueLeaf(vals) ==
    /\ Len(vals) >= 2
    /\ SameShape(vals)
    /\ OneOut(vals)
    /\ IsDict(vals[1]) =>
          /\ Cardinality({k \in KeysOf(vals[1]) : ~AllEq(KidsK(vals, k))}) = 1
          /\ \A k \in KeysOf(vals[1]) :
                AllEq(KidsK(vals, k)) \/ UniqueLeaf(KidsK(vals, k))
    /\ IsList(vals[1]) =>
          /\ Cardinality({i \in Idx(vals[1].val) : ~AllEq(KidsI(vals, i))}) = 1
          /\ \A i \in Idx(vals[1].val) :
                AllEq(KidsI(vals, i)) \/ UniqueLeaf(KidsI(vals, i))

\* o is a subtree every variant agreed on, s what static holds in its place:
\* static holds every leaf of o that is not Null
RECURSIVE InStatic(_, _)
InStatic(o, s) ==
    CASE IsDict(o) -> \A k \in KeysOf(o) : InStatic(o.val[k], ChildK(s, k))
      [] IsList(o) -> \A i \in Idx(o.val) : InStatic(o.val[i], ChildI(s, i))
      [] OTHER -> IsNone(o) \/ PyEq(s, o)

\* ov, pv: what the variants held and hold at one path, s: static there.
\* keepAll = FALSE: the differing leaf stays in the differing variant only.
\* keepAll = TRUE:  the differing leaf stays in every variant.
RECURSIVE LeafKept(_, _, _, _)
LeafKept(ov, pv, s, keepAll) ==
    IF AllEq(ov)
    THEN (\A n \in Idx(pv) : Gone(pv[n])) /\ InStatic(ov[1], s)
    ELSE IF IsScalar(ov[1])
    THEN /\ Gone(s)
         /\ IF keepAll THEN \A n \in Idx(ov) : PyEq(pv[n], ov[n])
            ELSE \E d \in Idx(ov) :
                    /\ \A n \in Idx(ov) \ {d} : ~PyEq(ov[n], ov[d])
                    /\ PyEq(pv[d], ov[d])
                    /\ \A n \in Idx(ov) \ {d} : Gone(pv[n])
    ELSE IF IsDict(ov[1])
    THEN \A k \in KeysOf(ov[1]) :
            LeafKept(KidsK(ov, k), KidsK(pv, k), ChildK(s, k), keepAll)
    ELSE \A i \in Idx(ov[1].val) :
            LeafKept(KidsI(ov, i), KidsI(pv, i), ChildI(s, i), keepAll)

\* C6 as stated: when exactly one variant differs from the rest at a single
\* scalar leaf, after the factoring that leaf is held, with its value, by the
\* differing variant only and is absent or Null in all the others, and the
\* leaves all variants agree on are in static.
C6_LeafOnlyInDiffering ==
    (phase = "factored" /\ UniqueLeaf(orig)) =>
        LeafKept(orig, per_level, static, FALSE)

\* C6 amended: when exactly one variant differs from the rest at a single
\* scalar leaf, after the factoring every variant still holds that leaf with
\* its own value, static does not hold it, and every leaf all variants agree
\* on is absent or Null in every variant and, unless it is Null, in static.
C6_LeafInEveryVariant ==
    (phase = "factored" /\ UniqueLeaf(orig)) =>
        LeafKept(orig, per_level, static, TRUE)

\* two records that differ at one leaf, another leaf pulled into static
C6_Witness ==
    /\ phase = "factored"
    /\ UniqueLeaf(orig)
    /\ ~IsNone(static)
    /\ \E n \in Levels : per_level[n] # orig[n]

\* C7: a second factoring of the compacted variants, the representative
\* recomputed as the first of them, returns no static and changes no variant.
C7_FixedPoint ==
    phase = "refactored" =>
        /\ IsNone(static)
        /\ per_level = compacted

\* the second call ran on variants the first call had compacted
C7_Witness ==
    /\ phase = "refactored"
    /\ Len(orig) >= 2
    /\ \E k \in Keys :
          /\ ~Gone(ChildK(orig[1], k))
          /\ \A n \in Levels : ~HasKey(compacted[n], k)
    /\ \E k \in Keys : \A n \in Levels : HasKey(compacted[n], k)

\* every sequence in v is a sequence of the same length in o, each slot
\* as it was or Null
RECURSIVE LensKept(_, _)
LensKept(o, v) ==
    /\ IsList(v) =>
          /\ IsList(o)
          /\ Len(v.val) = Len(o.val)
          /\ \A i \in Idx(v.val) : IsNone(v.val[i]) \/ LensKept(o.val[i], v.val[i])
    /\ IsDict(v) =>
          /\ IsDict(o)
          /\ \A k \in KeysOf(v) : LensKept(o.val[k], v.val[k])
    /\ IsScalar(v) => PyEq(v, o)

\* C8: no call changes the length of a sequence that a variant still holds;
\* a slot is overwritten with Null in place, never inserted or removed.
C8_SequenceLengthKept ==
    /\ Len(per_level) = Len(orig)
    /\ \A n \in Levels : LensKept(orig[n], per_level[n])

\* a variant still holds a sequence in which a slot was overwritten with Null
C8_Witness ==
    /\ phase = "factored"
    /\ \E n \in Levels, k \in Keys :
          /\ IsList(ChildK(per_level[n], k))
          /\ \E i \in Idx(per_level[n].val[k].val) :
                /\ IsNone(per_level[n].val[k].val[i])
                /\ ~IsNone(orig[n].val[k].val[i])

\* rep and vals sit at one position that the factoring compares: some
\* variant's kind is not the representative's kind (None left aside: it is
\* the absence sentinel), here or at a position below
RECURSIVE KindMismatch(_, _)
KindMismatch(rep, vals) ==
    \/ \E n \in Idx(vals) :
          /\ rep.kind # vals[n].kind
          /\ ~IsNone(rep) /\ ~IsNone(vals[n])
    \/ /\ IsDict(rep)
       /\ \A n \in Idx(vals) : IsDict(vals[n])
       /\ \E k \in KeysOf(rep) :
             /\ \A n \in Idx(vals) : HasKey(vals[n], k)
             /\ KindMismatch(rep.val[k], KidsK(vals, k))
    \/ /\ IsList(rep)
       /\ \A n \in Idx(vals) : IsList(vals[n]) /\ Len(vals[n].val) = Len(rep.val)
       /\ \E i \in Idx(rep.val) : KindMismatch(rep.val[i], KidsI(vals, i))

\* C9: when a variant's value has another kind than the representative's
\* value at the same position, the factoring ends with an error and returns
\* no result.
C9_KindMismatchRaises ==
    (Len(orig) >= 1 /\ KindMismatch(orig[1], orig)) =>
        phase \in {"loaded", "failed"}

\* C10: when the factoring ends with an error, no static document was
\* produced and every variant is as it was before the call.
C10_ErrorLeavesVariantsIntact ==
    phase = "failed" =>
        /\ IsNone(static)
        /\ per_level = orig

\* ---- properties of _handle_list on its own -------------------------------
SeqAllNone == \A n \in Levels : IsNone(orig[n])
SeqAnyNone == \E n \in Levels : IsNone(orig[n])
SeqLenDiffers ==
    \E n \in Levels : IsList(orig[n]) /\ Len(orig[n].val) # Len(representative.val)
Returned(st, cl) ==
    phase = "seq_done" /\ PyEq(static, st) /\ cleared = cl

\* C11: _handle_list, given sequences or None as variants, returns the
\* result of the first case that matches, in this order: all variants None
\* -> (None, True); some None -> (None, False); a length other than the
\* representative's -> (None, False); representative empty -> ([], True);
\* and in the first three cases no variant is changed.
C11_EdgeCaseOrder ==
    phase # "seq_loaded" =>
        IF SeqAllNone THEN Returned(Null, TRUE) /\ per_level = orig
        ELSE IF SeqAnyNone THEN Returned(Null, FALSE) /\ per_level = orig
        ELSE IF SeqLenDiffers THEN Returned(Null, FALSE) /\ per_level = orig
        ELSE IF representative.val = <<>> THEN Returned(List(<<>>), TRUE)
        ELSE TRUE

\* two present sequences of different lengths that start with the same
\* value, and the call has returned
C11_Witness ==
    /\ phase = "seq_done"
    /\ ~SeqAnyNone
    /\ \E n \in Levels :
          /\ Len(orig[n].val) # Len(representative.val)
          /\ Len(orig[n].val) >= 1 /\ Len(representative.val) >= 1
          /\ ~IsNone(representative.val[1])
          /\ PyEq(orig[n].val[1], representative.val[1])

\* the elementwise case: every variant is a sequence of the representative's
\* length, which is not 0, and the call has returned
Elementwise ==
    /\ phase = "seq_done"
    /\ representative.val # <<>>
    /\ \A n \in Levels : IsList(orig[n]) /\ Len(orig[n].val) = Len(representative.val)

\* what the recursive call for index i returned
ChildCall(i) == Factor(representative.val[i], KidsI(orig, i))
Contributing == {i \in Idx(representative.val) : ~IsNone(ChildCall(i).static)}
MarkedIs == {i \in Idx(representative.val) : ChildCall(i).cleared}

\* static is None if no index contributed, else a sequence of the
\* representative's length with the child statics and None elsewhere
StaticAsComposed ==
    IF Contributing = {} THEN IsNone(static)
    ELSE /\ IsList(static)
         /\ Len(static.val) = Len(representative.val)
         /\ \A i \in Idx(static.val) :
               IF i \in Contributing THEN PyEq(static.val[i], ChildCall(i).static)
               ELSE IsNone(static.val[i])

\* C13 as stated: in the elementwise case static is composed of the child
\* statics, in every variant exactly the indices whose recursive call
\* reported cleared = True hold None afterwards, and cleared is True iff
\* every index was marked.
C13_ExactlyMarkedAreNone ==
    Elementwise =>
        /\ StaticAsComposed
        /\ \A n \in Levels : \A i \in Idx(per_level[n].val) :
              IsNone(per_level[n].val[i]) <=> i \in MarkedIs
        /\ cleared <=> MarkedIs = Idx(representative.val)

\* C13 amended: in the elementwise case static is composed of the child
\* statics, in every variant every marked index holds None afterwards and
\* every other index holds what the recursive call left there (None only
\* if it was None before), and cleared is True iff every index was marked.
C13_MarkedAreNone ==
    Elementwise =>
        /\ StaticAsComposed
        /\ \A n \in Levels :
              /\ Len(per_level[n].val) = Len(orig[n].val)
              /\ \A i \in Idx(per_level[n].val) :
                    IF i \in MarkedIs THEN IsNone(per_level[n].val[i])
                    ELSE /\ PyEq(per_level[n].val[i], ChildCall(i).pl[n])
                         /\ IsNone(per_level[n].val[i]) => IsNone(orig[n].val[i])
        /\ cleared <=> MarkedIs = Idx(representative.val)

\* one index contributed to static and was cleared, another did neither
C13_Witness ==
    /\ Elementwise
    /\ Len(orig) >= 2
    /\ Contributing # {} /\ Contributing # Idx(representative.val)
    /\ MarkedIs # {} /\ MarkedIs # Idx(representative.val)

\* ---- C12: the scan reads undisturbed values --------------------------------
Reads == {j \in Idx(log) : log[j].ev = "read"}
Writes == {j \in Idx(log) : log[j].ev = "write"}
IsPrefix(p, q) == Len(p) <= Len(q) /\ SubSeq(q, 1, Len(p)) = p

\* C12: in the log of a top-level call (the representative being the first
\* variant, as the converter calls it), within one mapping or sequence call
\* no scan step follows a deletion or nulling of that call; every read of a
\* scan, nested calls included, finds the values that were at that path
\* before the top-level call; and no read is of a key or slot, or of a path
\* under it, that an earlier write deleted or nulled.
C12_ScanBeforeMutate ==
    phase # "ref_loaded" =>
        /\ \A i \in Writes : \A j \in Reads :
                (i < j /\ log[i].call = log[j].call) => FALSE
        /\ \A j \in Reads : log[j].clean
        /\ \A i \in Writes : \A j \in Reads :
                i < j => ~IsPrefix(log[i].at, log[j].at)

\* a nested call has deleted and nulled inside the first key's value before
\* the top-level scan reads the second key, and the top-level call deletes
\* a key itself at the end
C12_Witness ==
    /\ phase = "ref_factored"
    /\ Len(orig) >= 2
    /\ \E i \in Writes : \E j \in Reads :
            /\ i < j
            /\ Len(log[i].call) = 1
            /\ log[j].call = <<>>
    /\ \E i \in Writes : log[i].call = <<>>
    /\ per_level # orig

\* ---- C14: the aliased representative ---------------------------------------
\* the same call with an independent deep copy of the first variant as the
\* representative: a value that no mutation of the variants reaches
IndependentCopy == _handle_dict(orig[1], orig)

\* C14: the call with the representative being the first variant itself
\* returns the same static and cleared, raises in the same cases and leaves
\* the variants in the same final state as the call with an independent deep
\* copy of the first variant; every read of the scan finds the values of
\* before the call; and the static holds no mutable object of a variant.
C14_AliasingEquivalence ==
    phase # "ref_loaded" =>
        /\ static = IndependentCopy.static
        /\ cleared = IndependentCopy.cleared
        /\ per_level = IndependentCopy.pl
        /\ (phase = "ref_failed") = IndependentCopy.err
        /\ \A j \in Reads : log[j].clean
        /\ \A j \in Idx(log) : log[j].ev # "alias"

\* a nested call has nulled or deleted inside a value of the aliased
\* representative, the top-level scan has then compared a later key and found
\* it to differ, and a static came back
C14_Witness ==
    /\ phase = "ref_factored"
    /\ Len(orig) >= 2
    /\ \E k \in Keys :
            /\ ~IsScalar(ChildK(orig[1], k))
            /\ \E i \in Writes : \E j \in Reads :
                    /\ i < j
                    /\ log[i].call = <<k>>
                    /\ log[j].call = <<>>
    /\ ~IsNone(static)
    /\ ~cleared
    /\ per_level[1] # orig[1]

====
